---- MODULE Spec2Model ----
(***************************************************************************)
(* Model of the Shang Theory diagnostic core (src/src/diagnostics.py):     *)
(* proxy mapping -> intermediate variables -> seven core equations ->      *)
(* classification, and the orchestrator quick_diagnose with its module     *)
(* level default tables.                                                   *)
(*                                                                         *)
(* Numbers.  Python floats are modelled in fixed point: the integer n      *)
(* stands for n / Scale.  A product or quotient is rounded to the nearest  *)
(* 1/Scale.  Results of a division and of np.clip can be non-finite, so    *)
(* they are "extended" values: Fin(n), NaN, PInf, NInf, with IEEE-754      *)
(* comparison (every comparison with NaN is false).  The fixed point is    *)
(* coarser than a float64: a magnitude under 1/(2 Scale) is 0 here, and    *)
(* the inputs are kept in the range where no float64 product overflows.    *)
(*                                                                         *)
(* Types.  Python's float division raises ZeroDivisionError on a zero      *)
(* divisor, numpy's float64 division gives inf or nan.  Which one a        *)
(* division is depends on its operands, so the input says whether the      *)
(* proxies are Python floats (a list) or float64 (a numpy array).          *)
(***************************************************************************)
EXTENDS Integers, Sequences, FiniteSets, TLC

Scale == 10^4

\* ------------------------------------------------------------------------
\* Arithmetic of the floats the code uses
\* ------------------------------------------------------------------------

\* a / b rounded to the nearest integer (b # 0)
RDiv(a, b) ==
  LET n == IF b < 0 THEN -a ELSE a
      d == IF b < 0 THEN -b ELSE b
      q == n \div d
      r == n % d
  IN IF 2 * r >= d THEN q + 1 ELSE q

\* the float product a * b
Mul(a, b) ==
  LET ah == a \div Scale
      al == a % Scale
      bh == b \div Scale
      bl == b % Scale
  IN ah * bh * Scale + ah * bl + al * bh + RDiv(al * bl, Scale)

Fin(n) == [k |-> "fin", v |-> n]
NaN == [k |-> "nan", v |-> 0]
PInf == [k |-> "inf", v |-> 1]
NInf == [k |-> "inf", v |-> -1]

IsFinite(x) == x.k = "fin"

\* numpy's float64 division a / b: no exception, inf or nan on b = 0
NpDiv(a, b) ==
  IF b # 0 THEN Fin(RDiv(a * Scale, b))
  ELSE IF a = 0 THEN NaN
  ELSE IF a > 0 THEN PInf ELSE NInf

\* a - x for a finite a and an extended x
SubExt(a, x) ==
  IF x.k = "fin" THEN Fin(a - x.v)
  ELSE IF x.k = "nan" THEN NaN
  ELSE IF x.v > 0 THEN NInf ELSE PInf

\* IEEE comparisons of an extended value with a finite one
GE(x, t) == \/ x.k = "fin" /\ x.v >= t
            \/ x.k = "inf" /\ x.v > 0
LE(x, t) == \/ x.k = "fin" /\ x.v <= t
            \/ x.k = "inf" /\ x.v < 0
GT(x, t) == \/ x.k = "fin" /\ x.v > t
            \/ x.k = "inf" /\ x.v > 0
LT(x, t) == \/ x.k = "fin" /\ x.v < t
            \/ x.k = "inf" /\ x.v < 0

\* Python's max(a, 0)
Max0(a) == IF 0 > a THEN 0 ELSE a

\* a clip that forgets the upper bound
ClipNoUpper(x, lo, hi) == IF x < lo THEN lo ELSE x

\* np.clip on a finite value
Clip(x, lo, hi) ==
  LET m == IF x < lo THEN lo ELSE x
  IN IF m > hi THEN hi ELSE m

\* np.clip on an extended value: nan stays nan, +-inf goes to the bound
ClipExt(x, lo, hi) ==
  IF x.k = "nan" THEN NaN
  ELSE IF x.k = "inf" THEN (IF x.v > 0 THEN Fin(hi) ELSE Fin(lo))
  ELSE Fin(Clip(x.v, lo, hi))

\* np.exp(y), by its power series; a term that rounds to 0 ends the sum
RECURSIVE ExpSeries(_, _, _, _)
ExpSeries(y, n, term, acc) ==
  LET t == RDiv(term * y, n * Scale)
  IN IF t = 0 THEN acc ELSE ExpSeries(y, n + 1, t, acc + t)

NpExp(y) == ExpSeries(y, 1, Scale, Scale)

\* ------------------------------------------------------------------------
\* Module level tables
\* ------------------------------------------------------------------------

DefaultParams ==
  [delta |-> 10000, R |-> 20000, R_plus |-> 22000,
   alpha |-> 1000, rho |-> 2000, mu |-> 500, kappa |-> 500, chi |-> 1000,
   beta_plus |-> 1000, beta_minus |-> 800, tau |-> 1500, iota |-> 2000,
   zeta_plus |-> 500, zeta_minus |-> 700, lambda_ |-> 1000,
   omega |-> 41000]

DefaultThresholds ==
  [phi_plus_critical |-> 3300, phi_minus_safe |-> 1000,
   phi_minus_danger |-> 1800, TP_forward |-> 5200, TP_collapse |-> 1500]

\* ------------------------------------------------------------------------
\* Results of a call: a value, or an exception
\* ------------------------------------------------------------------------

Return(x) == [raised |-> "none", value |-> x]
Raise(e) == [raised |-> e]

\* ------------------------------------------------------------------------
\* calculate_intermediate_variables
\* A proxy input is [kind, v]: kind "list" is a list of Python floats, kind
\* "ndarray" a numpy array (its elements are float64); v is the sequence.
\* ------------------------------------------------------------------------

\* a variant that reads proxy_values[0] .. proxy_values[14] by index: a longer
\* input is accepted and its tail ignored, a shorter one is an IndexError
UnpackByIndex(proxy_values) ==
  IF Len(proxy_values.v) < 15 THEN Raise("IndexError")
  ELSE Return(SubSeq(proxy_values.v, 1, 15))

\* the unpacking of proxy_values into fifteen names, the function's first
\* statement: Python raises ValueError when the lengths differ ("not enough
\* values to unpack" / "too many values to unpack"), before any name is bound
Unpack(proxy_values) ==
  IF Len(proxy_values.v) # 15 THEN Raise("ValueError")
  ELSE Return(proxy_values.v)

calculate_intermediate_variables(proxy_values) ==
  IF Unpack(proxy_values).raised # "none" THEN Unpack(proxy_values)
  ELSE
  LET pv == Unpack(proxy_values).value
      gdp_growth == pv[1]
      non_cash_ratio == pv[2]
      npl_ratio == pv[3]
      shadow_economy == pv[4]
      gini == pv[5]
      polarization == pv[6]
      net_migration == pv[7]
      digital_coverage == pv[8]
      electricity_access == pv[9]
      internet_penetration == pv[10]
      youth_unemployment == pv[12]
      debt_service_ratio == pv[13]
      crypto_estimate == pv[14]
      toxicity_index == pv[15]
  IN Return(
     [P |-> (Mul(gdp_growth, 4000) + Mul(digital_coverage, 3000)
               + Mul(internet_penetration, 3000)) * 10,
      K_plus |-> Clip(Mul(non_cash_ratio, Scale - npl_ratio * 5), 1000, 9500),
      K_minus |-> Clip(Mul(shadow_economy, 3000) + Mul(crypto_estimate, 7000),
                       500, 8000),
      sigma_plus |-> Clip(7000 - Mul(polarization, 5000)
                            + Mul(net_migration, 100)
                            - Mul(toxicity_index, 3000), 1000, 9000),
      sigma_minus |-> Clip(1000 + Mul(youth_unemployment, 6000)
                             + Mul(debt_service_ratio, 3000)
                             + Mul(polarization, 4000), 500, 8000),
      A |-> Clip(3000 + Mul(net_migration, 500) + Mul(digital_coverage, 2000)
                   - Mul(toxicity_index, 1500), 1000, 9000),
      D |-> polarization,
      Lambda |-> Clip(15000 - shadow_economy - npl_ratio * 10, 5000, 30000),
      Psi |-> Scale - toxicity_index,
      G |-> Mul(gdp_growth * 10, 7000) + Mul(electricity_access, 3000),
      G_type |-> IF proxy_values.kind = "ndarray" THEN "float64" ELSE "float",
      H |-> Clip(8000 - Mul(youth_unemployment, 5000)
                   - Mul(toxicity_index, 3000), 2000, 10000),
      gini |-> gini])

\* ------------------------------------------------------------------------
\* compute_core_equations
\* ------------------------------------------------------------------------

\* pm['chi'] / p['G']: Python's float division raises on a zero divisor,
\* numpy's float64 division does not
ChiOverG(chi, G, G_type) ==
  IF G_type = "float" /\ G = 0 THEN Raise("ZeroDivisionError")
  ELSE Return(NpDiv(chi, G))

\* line 102: T_plus
eq_T_plus(p, pm) ==
  Mul(Mul(Mul(p.sigma_plus, Max0(p.P - pm.delta)), p.K_plus),
      NpExp(-pm.lambda_))

\* T_minus with the threshold of T_plus (delta for R_plus)
eq_T_minus_delta(p, pm) ==
  Mul(Mul(Mul(p.sigma_minus, Max0(p.P - pm.delta)), p.K_minus),
      NpExp(-pm.lambda_))

\* line 104: T_minus
eq_T_minus(p, pm) ==
  Mul(Mul(Mul(p.sigma_minus, Max0(p.P - pm.R_plus)), p.K_minus),
      NpExp(-pm.lambda_))

\* line 108: d_sigma_plus
eq_d_sigma_plus(p, pm) ==
  Mul(pm.alpha, Max0(pm.R - p.P)) + Mul(pm.rho, p.H)
    - Mul(pm.mu, p.sigma_minus)

\* line 110: d_sigma_minus, or the exception of the division
eq_d_sigma_minus(p, pm) ==
  LET density == ChiOverG(pm.chi, p.G, p.G_type)
  IN IF density.raised # "none" THEN density
     ELSE Return(SubExt(Mul(pm.kappa, Max0(p.P - pm.R_plus))
                          - Mul(Mul(p.Lambda, p.Psi), p.sigma_minus),
                        density.value))

\* phi_plus without np.clip
eq_phi_plus_unclipped(p, pm, T_plus) ==
  NpDiv(Mul(Mul(pm.beta_plus, T_plus), Scale + Mul(pm.tau, p.A)),
        pm.zeta_plus)

\* line 114: phi_plus
eq_phi_plus(p, pm, T_plus) ==
  ClipExt(NpDiv(Mul(Mul(pm.beta_plus, T_plus), Scale + Mul(pm.tau, p.A)),
                pm.zeta_plus), 500, 8000)

\* phi_minus amplified by omega (for iota)
eq_phi_minus_omega(p, pm, T_minus) ==
  ClipExt(NpDiv(Mul(Mul(pm.beta_minus, T_minus), Scale + Mul(pm.omega, p.D)),
                pm.zeta_minus), 200, 6000)

\* line 115: phi_minus
eq_phi_minus(p, pm, T_minus) ==
  ClipExt(NpDiv(Mul(Mul(pm.beta_minus, T_minus), Scale + Mul(pm.iota, p.D)),
                pm.zeta_minus), 200, 6000)

\* lines 118-121: TP
eq_TP(p, pm, T_plus, T_minus) ==
  LET CCA_plus == T_plus * 10
      CCA_minus == T_minus * 10
      eta == Scale - p.gini
  IN Mul(CCA_plus, eta) - Mul(pm.omega, CCA_minus)

compute_core_equations(p, pm) ==
  LET T_plus == eq_T_plus(p, pm)
      T_minus == eq_T_minus(p, pm)
      d_sigma_minus == eq_d_sigma_minus(p, pm)
  IN IF d_sigma_minus.raised # "none" THEN d_sigma_minus
     ELSE Return(
       [T_plus |-> T_plus, T_minus |-> T_minus,
        d_sigma_plus |-> eq_d_sigma_plus(p, pm),
        d_sigma_minus |-> d_sigma_minus.value,
        phi_plus |-> eq_phi_plus(p, pm, T_plus),
        phi_minus |-> eq_phi_minus(p, pm, T_minus),
        TP |-> Fin(eq_TP(p, pm, T_plus, T_minus)),
        eta |-> Scale - p.gini])

\* ------------------------------------------------------------------------
\* diagnose_system
\* ------------------------------------------------------------------------

\* the number an f-string shows with the format .3f
Fmt3(x) == IF x.k = "fin" THEN Fin(RDiv(x.v, Scale \div 1000)) ELSE x

\* the status rules with the second rule tried first
StatusRulesSecondFirst(phi_plus, phi_minus, TP, thresholds) ==
  IF /\ GE(phi_plus, thresholds.phi_plus_critical)
     /\ LE(phi_minus, thresholds.phi_minus_danger)
     /\ GE(TP, thresholds.TP_collapse)
  THEN [status |-> "fragile_positive_transition",
        label |-> "U+26A0 U+FE0F U+0020 U+8106 U+5F31 U+6B63 U+8DC3 U+8FC1 U+002F U+505C U+6EDE",
        risk |-> "medium"]
  ELSE IF /\ GE(phi_plus, thresholds.phi_plus_critical)
          /\ LE(phi_minus, thresholds.phi_minus_safe)
          /\ GE(TP, thresholds.TP_forward)
  THEN [status |-> "deep_positive_transition",
        label |-> "U+2705 U+0020 U+6DF1 U+5EA6 U+6B63 U+8DC3 U+8FC1",
        risk |-> "low"]
  ELSE IF /\ GT(phi_minus, thresholds.phi_minus_danger)
          /\ LT(TP, thresholds.TP_collapse)
  THEN [status |-> "negative_transition_warning",
        label |-> "U+1F6A8 U+0020 U+8D1F U+8DC3 U+8FC1 U+9884 U+8B66",
        risk |-> "high"]
  ELSE [status |-> "threshold_hovering",
        label |-> "U+2696 U+FE0F U+0020 U+9608 U+503C U+5F98 U+5F8A",
        risk |-> "variable"]

\* lines 138-153: the if/elif chain; a label is written as the code points
\* of the source's string literal
StatusRules(phi_plus, phi_minus, TP, thresholds) ==
  IF /\ GE(phi_plus, thresholds.phi_plus_critical)
     /\ LE(phi_minus, thresholds.phi_minus_safe)
     /\ GE(TP, thresholds.TP_forward)
  THEN [status |-> "deep_positive_transition",
        label |-> "U+2705 U+0020 U+6DF1 U+5EA6 U+6B63 U+8DC3 U+8FC1",
        risk |-> "low"]
  ELSE IF /\ GE(phi_plus, thresholds.phi_plus_critical)
          /\ LE(phi_minus, thresholds.phi_minus_danger)
          /\ GE(TP, thresholds.TP_collapse)
  THEN [status |-> "fragile_positive_transition",
        label |-> "U+26A0 U+FE0F U+0020 U+8106 U+5F31 U+6B63 U+8DC3 U+8FC1 U+002F U+505C U+6EDE",
        risk |-> "medium"]
  ELSE IF /\ GT(phi_minus, thresholds.phi_minus_danger)
          /\ LT(TP, thresholds.TP_collapse)
  THEN [status |-> "negative_transition_warning",
        label |-> "U+1F6A8 U+0020 U+8D1F U+8DC3 U+8FC1 U+9884 U+8B66",
        risk |-> "high"]
  ELSE [status |-> "threshold_hovering",
        label |-> "U+2696 U+FE0F U+0020 U+9608 U+503C U+5F98 U+5F8A",
        risk |-> "variable"]

\* the warnings with the first one measured against the danger threshold
WarningsDanger(phi_minus, TP, thresholds) ==
  (IF GT(phi_minus, thresholds.phi_minus_danger)
   THEN <<[msg |-> "phi_minus_over_safe", shown |-> Fmt3(phi_minus)]>>
   ELSE <<>>)
  \o (IF LT(TP, thresholds.TP_forward)
      THEN <<[msg |-> "TP_insufficient", shown |-> Fmt3(TP)]>>
      ELSE <<>>)

\* lines 156-160: the warning list
Warnings(phi_minus, TP, thresholds) ==
  (IF GT(phi_minus, thresholds.phi_minus_safe)
   THEN <<[msg |-> "phi_minus_over_safe", shown |-> Fmt3(phi_minus)]>>
   ELSE <<>>)
  \o (IF LT(TP, thresholds.TP_forward)
      THEN <<[msg |-> "TP_insufficient", shown |-> Fmt3(TP)]>>
      ELSE <<>>)

diagnose_system(phi_plus, phi_minus, TP, thresholds) ==
  LET verdict == StatusRules(phi_plus, phi_minus, TP, thresholds)
  IN [status |-> verdict.status,
      label |-> verdict.label,
      risk_level |-> verdict.risk,
      warnings |-> Warnings(phi_minus, TP, thresholds),
      thresholds_met |->
        [phi_plus_ok |-> GE(phi_plus, thresholds.phi_plus_critical),
         phi_minus_safe |-> LE(phi_minus, thresholds.phi_minus_safe),
         TP_forward_ok |-> GE(TP, thresholds.TP_forward)]]

\* ------------------------------------------------------------------------
\* quick_diagnose
\* A dictionary is a function from its keys.  An optional dictionary
\* argument is [none, map]: none says the argument is None.
\* ------------------------------------------------------------------------

EmptyDict == [x \in {} |-> 0]
None == [none |-> TRUE, map |-> EmptyDict]
Dict(d) == [none |-> FALSE, map |-> d]

\* custom or {}
OrEmpty(custom) ==
  IF custom.none \/ DOMAIN custom.map = {} THEN EmptyDict ELSE custom.map

\* the merge the other way round: {**custom, **defaults}
DictMergeDefaultsWin(defaults, custom) ==
  [x \in DOMAIN defaults \cup DOMAIN custom |->
     IF x \in DOMAIN defaults THEN defaults[x] ELSE custom[x]]

\* {**defaults, **custom}
DictMerge(defaults, custom) ==
  [x \in DOMAIN defaults \cup DOMAIN custom |->
     IF x \in DOMAIN custom THEN custom[x] ELSE defaults[x]]

\* lines 195-210, on the merged tables
Pipeline(proxy_values, params, thresholds) ==
  LET intermediate_vars == calculate_intermediate_variables(proxy_values)
      core_results ==
        compute_core_equations(intermediate_vars.value, params)
      cr == core_results.value
  IN IF intermediate_vars.raised # "none" THEN intermediate_vars
     ELSE IF core_results.raised # "none" THEN core_results
     ELSE Return(
       [input_proxies |-> proxy_values,
        intermediate_variables |-> intermediate_vars.value,
        core_results |-> cr,
        diagnosis |-> diagnose_system(cr.phi_plus, cr.phi_minus, cr.TP,
                                      thresholds),
        model_parameters_used |-> params,
        thresholds_used |-> thresholds])

\* the whole call, given the contents mp, th of the two module tables
quick_diagnose(proxy_values, custom_params, custom_thresholds, mp, th) ==
  Pipeline(proxy_values,
           DictMerge(mp, OrEmpty(custom_params)),
           DictMerge(th, OrEmpty(custom_thresholds)))

\* ------------------------------------------------------------------------
\* quick_diagnostic.py: the standalone tool
\* Its quick_diagnose(proxy_values, params) maps, computes and classifies in
\* one function, reads params by subscript (a missing key is a KeyError,
\* nothing is merged with PARAMS) and returns the tuple
\* (phi_plus, phi_minus, TP, status).
\* ------------------------------------------------------------------------

PARAMS ==
  [delta |-> 10000, R |-> 20000, R_plus |-> 22000,
   alpha |-> 1000, rho |-> 2000, mu |-> 500, kappa |-> 500, chi |-> 1000,
   beta_plus |-> 1000, beta_minus |-> 800, tau |-> 1500, iota |-> 2000,
   zeta_plus |-> 500, zeta_minus |-> 700, lambda_ |-> 1000,
   omega |-> 41000]

\* the keys the tool reads up to and including params['chi'] / G
KeysToDensity ==
  {"delta", "lambda_", "R_plus", "alpha", "R", "rho", "mu", "kappa", "chi"}

\* the keys the tool reads after it: the condition of a conditional
\* expression is evaluated first, the quotient only when zeta > 0
KeysAfterDensity(params) ==
  {"zeta_plus", "zeta_minus", "omega"}
    \cup (IF "zeta_plus" \in DOMAIN params /\ params["zeta_plus"] > 0
          THEN {"beta_plus", "tau"} ELSE {})
    \cup (IF "zeta_minus" \in DOMAIN params /\ params["zeta_minus"] > 0
          THEN {"beta_minus", "iota"} ELSE {})

\* the tool's chain with the safe threshold in its second rule
quick_diagnostic_status_safe(phi_plus, phi_minus, TP) ==
  IF GE(phi_plus, 3300) /\ LE(phi_minus, 1000) /\ GE(TP, 5200)
  THEN "U+2705 U+0020 U+6DF1 U+5EA6 U+6B63 U+8DC3 U+8FC1"
  ELSE IF GE(phi_plus, 3300) /\ LE(phi_minus, 1000) /\ GE(TP, 1500)
  THEN "U+26A0 U+FE0F U+0020 U+8106 U+5F31 U+6B63 U+8DC3 U+8FC1 U+002F U+505C U+6EDE"
  ELSE IF GT(phi_minus, 1800) /\ LT(TP, 1500)
  THEN "U+1F6A8 U+0020 U+8D1F U+8DC3 U+8FC1 U+9884 U+8B66"
  ELSE "U+2696 U+FE0F U+0020 U+9608 U+503C U+5F98 U+5F8A"

\* lines 137-145: the tool's if/elif chain, on its own literals
quick_diagnostic_status(phi_plus, phi_minus, TP) ==
  IF GE(phi_plus, 3300) /\ LE(phi_minus, 1000) /\ GE(TP, 5200)
  THEN "U+2705 U+0020 U+6DF1 U+5EA6 U+6B63 U+8DC3 U+8FC1"
  ELSE IF GE(phi_plus, 3300) /\ LE(phi_minus, 1800) /\ GE(TP, 1500)
  THEN "U+26A0 U+FE0F U+0020 U+8106 U+5F31 U+6B63 U+8DC3 U+8FC1 U+002F U+505C U+6EDE"
  ELSE IF GT(phi_minus, 1800) /\ LT(TP, 1500)
  THEN "U+1F6A8 U+0020 U+8D1F U+8DC3 U+8FC1 U+9884 U+8B66"
  ELSE "U+2696 U+FE0F U+0020 U+9608 U+503C U+5F98 U+5F8A"

\* lines 58-147; Lambda, Psi, H and the two d_sigma trends are computed and
\* dropped, of them only the exception of params['chi'] / G can be seen
quick_diagnostic_quick_diagnose(proxy_values, params) ==
  IF Len(proxy_values.v) # 15 THEN Raise("ValueError")
  ELSE
  LET pv == proxy_values.v
      gdp_growth == pv[1]
      non_cash_ratio == pv[2]
      npl_ratio == pv[3]
      shadow_economy == pv[4]
      gini == pv[5]
      polarization == pv[6]
      net_migration == pv[7]
      digital_coverage == pv[8]
      electricity_access == pv[9]
      internet_penetration == pv[10]
      youth_unemployment == pv[12]
      debt_service_ratio == pv[13]
      crypto_estimate == pv[14]
      toxicity_index == pv[15]
      P == (Mul(gdp_growth, 4000) + Mul(digital_coverage, 3000)
              + Mul(internet_penetration, 3000)) * 10
      K_plus == Clip(Mul(non_cash_ratio, Scale - npl_ratio * 5), 1000, 9500)
      K_minus == Clip(Mul(3000, shadow_economy) + Mul(7000, crypto_estimate),
                      500, 8000)
      sigma_plus == Clip(7000 - Mul(polarization, 5000)
                           + Mul(net_migration, 100)
                           - Mul(toxicity_index, 3000), 1000, 9000)
      sigma_minus == Clip(1000 + Mul(youth_unemployment, 6000)
                            + Mul(debt_service_ratio, 3000)
                            + Mul(polarization, 4000), 500, 8000)
      A == Clip(3000 + Mul(net_migration, 500) + Mul(digital_coverage, 2000)
                  - Mul(toxicity_index, 1500), 1000, 9000)
      D == polarization
      G == Mul(gdp_growth * 10, 7000) + Mul(electricity_access, 3000)
      G_type == IF proxy_values.kind = "ndarray" THEN "float64" ELSE "float"
      T_plus == Mul(Mul(Mul(sigma_plus, Max0(P - params["delta"])), K_plus),
                    NpExp(-params["lambda_"]))
      T_minus == Mul(Mul(Mul(sigma_minus, Max0(P - params["R_plus"])),
                         K_minus),
                     NpExp(-params["lambda_"]))
      phi_plus ==
        IF params["zeta_plus"] > 0
        THEN NpDiv(Mul(Mul(params["beta_plus"], T_plus),
                       Scale + Mul(params["tau"], A)),
                   params["zeta_plus"])
        ELSE Fin(0)
      phi_minus ==
        IF params["zeta_minus"] > 0
        THEN NpDiv(Mul(Mul(params["beta_minus"], T_minus),
                       Scale + Mul(params["iota"], D)),
                   params["zeta_minus"])
        ELSE Fin(0)
      CCA_plus == T_plus * 10
      CCA_minus == T_minus * 10
      eta == Scale - gini
      TP == Fin(Mul(CCA_plus, eta) - Mul(params["omega"], CCA_minus))
  IN IF ~(KeysToDensity \subseteq DOMAIN params) THEN Raise("KeyError")
     ELSE IF G_type = "float" /\ G = 0 THEN Raise("ZeroDivisionError")
     ELSE IF ~(KeysAfterDensity(params) \subseteq DOMAIN params)
     THEN Raise("KeyError")
     ELSE Return(<<ClipExt(phi_plus, 500, 8000), ClipExt(phi_minus, 200, 6000),
                   TP,
                   quick_diagnostic_status(ClipExt(phi_plus, 500, 8000),
                                           ClipExt(phi_minus, 200, 6000),
                                           TP)>>)

\* ------------------------------------------------------------------------
\* get_default_parameters / get_default_thresholds
\* Dictionaries are objects: heap maps an object to its contents.  The two
\* module tables are the objects "MODEL_PARAMS" and "THRESHOLDS".  A getter
\* gives the heap after the call and the object it returned.
\* ------------------------------------------------------------------------

\* the getter without .copy(): it hands out the module table itself
get_default_parameters_shared(h) == [heap |-> h, obj |-> "MODEL_PARAMS"]

get_default_parameters(h) ==
  [heap |-> [h EXCEPT !["dp"] = h["MODEL_PARAMS"]], obj |-> "dp"]

get_default_thresholds(h) ==
  [heap |-> [h EXCEPT !["dt"] = h["THRESHOLDS"]], obj |-> "dt"]

\* d[key] = val
DictSet(d, key, val) ==
  [x \in DOMAIN d \cup {key} |-> IF x = key THEN val ELSE d[x]]

\* ------------------------------------------------------------------------
\* Inputs
\* ------------------------------------------------------------------------

\* the proxies of the module's self-check
Reference ==
  <<440, 9200, 120, 1000, 4100, 4000, 15000, 9500, 10000, 9600, 2500, 910,
    690, 500, 3500>>

\* offsets, in 1/Scale, tried around every threshold
Spread == 1

ProxyVectors ==
  {[kind |-> kd,
    v |-> [Reference EXCEPT ![1] = g, ![8] = dc, ![10] = ip, ![9] = el,
                            ![14] = cr, ![6] = pol, ![12] = yu]] :
     kd \in {"list", "ndarray"}, g \in {0, 440}, dc \in {0, 9500},
     ip \in {0, 9600}, el \in {0, 10000}, cr \in {500, 8000},
     pol \in {4000, 9000}, yu \in {910, 6000}}

\* the longest proxy input tried
MaxLen == 16

\* inputs of every length up to MaxLen: the reference proxies, cut short or
\* followed by zeros
ShapeVectors ==
  {[kind |-> kd,
    v |-> [i \in 1 .. n |-> IF i <= 15 THEN Reference[i] ELSE 0]] :
     kd \in {"list", "ndarray"}, n \in 0 .. MaxLen}

\* the magnitude, in units, of the proxies far outside their usual range
Extreme == 3

\* proxies far outside their usual range, below and above, in every field
\* the clipped intermediate variables, D and gini depend on
ExtremeVectors ==
  {[kind |-> "list",
    v |-> [Reference EXCEPT ![2] = nc, ![3] = npl, ![4] = sh, ![5] = gi,
                            ![6] = pol, ![7] = mig, ![8] = dc, ![12] = yu,
                            ![13] = ds, ![14] = cr, ![15] = tox]] :
     nc \in {-Extreme * Scale, Extreme * Scale},
     npl \in {-Extreme * Scale, Extreme * Scale},
     sh \in {-Extreme * Scale, Extreme * Scale},
     gi \in {-Extreme * Scale, Extreme * Scale},
     pol \in {-Extreme * Scale, Extreme * Scale},
     mig \in {-Extreme * Scale * 100, Extreme * Scale * 100},
     dc \in {-Extreme * Scale, Extreme * Scale},
     yu \in {-Extreme * Scale, Extreme * Scale},
     ds \in {-Extreme * Scale, Extreme * Scale},
     cr \in {-Extreme * Scale, Extreme * Scale},
     tox \in {-Extreme * Scale, Extreme * Scale}}

CustomParams ==
  {None, Dict(EmptyDict), Dict([omega |-> 50000]), Dict([omega |-> 0]),
   Dict([zeta_plus |-> 0]), Dict([zeta_minus |-> 0]),
   Dict([omgea |-> 50000])}

CustomThresholds ==
  {None, Dict(EmptyDict), Dict([TP_forward |-> 70000]),
   Dict([phi_minus_safe |-> 500]),
   Dict([TP_fwd |-> 70000])}

QuickDiagnoseCalls ==
  {[fn |-> "quick_diagnose", proxy_values |-> pv, custom_params |-> cp,
    custom_thresholds |-> ct] :
     pv \in ProxyVectors, cp \in CustomParams, ct \in CustomThresholds}

\* quick_diagnose on inputs of every length
ShapeCalls ==
  {[fn |-> "quick_diagnose", proxy_values |-> pv, custom_params |-> cp,
    custom_thresholds |-> None] :
     pv \in ShapeVectors, cp \in CustomParams}

\* calculate_intermediate_variables called on its own
MapperCalls ==
  {[fn |-> "calculate_intermediate_variables", proxy_values |-> pv] :
     pv \in ProxyVectors \cup ShapeVectors \cup ExtremeVectors}

\* a dictionary without some of its keys
Without(d, keys) == [x \in DOMAIN d \ keys |-> d[x]]

\* the params handed to the tool: whole tables (one with a key the tool
\* does not know), tables with zeta <= 0, and mappings that give only some
\* of the parameters
ToolParams ==
  {PARAMS,
   [PARAMS EXCEPT !.omega = 50000],
   [PARAMS EXCEPT !.zeta_plus = 1000, !.lambda_ = 2000, !.iota = 20000],
   DictMerge(PARAMS, [note |-> 1]),
   [PARAMS EXCEPT !.zeta_plus = 0],
   [PARAMS EXCEPT !.zeta_minus = -700],
   Without(PARAMS, {"omega"}),
   Without(PARAMS, {"delta"}),
   [zeta_plus |-> 500, zeta_minus |-> 700],
   [omega |-> 50000]}

ToolCalls ==
  {[fn |-> "quick_diagnostic.quick_diagnose", proxy_values |-> pv,
    params |-> pm] :
     pv \in ProxyVectors \cup ShapeVectors, pm \in ToolParams}

ThresholdTables ==
  {DefaultThresholds,
   [DefaultThresholds EXCEPT !.phi_minus_safe = 1800, !.TP_forward = 1500]}

Around(t) == {Fin(t + d) : d \in -Spread .. Spread}

DiagnoseSystemCalls ==
  UNION {
    {[fn |-> "diagnose_system", phi_plus |-> pp, phi_minus |-> pm, TP |-> tp,
      thresholds |-> th] :
        pp \in Around(th.phi_plus_critical) \cup {NaN},
        pm \in Around(th.phi_minus_safe) \cup Around(th.phi_minus_danger)
                 \cup {NaN},
        tp \in Around(th.TP_collapse) \cup Around(th.TP_forward)
                 \cup {NaN, NInf}} :
    th \in ThresholdTables}

IntermediateVars ==
  {[P |-> P, K_plus |-> 8648, K_minus |-> 650, sigma_plus |-> 4100,
    sigma_minus |-> 3353, A |-> A, D |-> D, Lambda |-> 12800, Psi |-> 6500,
    G |-> G, G_type |-> gt, H |-> 6495, gini |-> 4100] :
     P \in {0, 10000, 30000, 59060}, A \in {1000, 5000}, D \in {4000, 50000},
     G \in {0, 6080}, gt \in {"float", "float64"}}

ParamTables ==
  {[DefaultParams EXCEPT !.zeta_plus = zp, !.zeta_minus = zm,
                         !.beta_plus = bp, !.tau = tau, !.iota = iota] :
     zp \in {0, 500, -500}, zm \in {0, 700}, bp \in {1000, -1000},
     tau \in {1500, -20000}, iota \in {2000, -2000}}

ComputeCoreCalls ==
  {[fn |-> "compute_core_equations", intermediate_vars |-> iv, params |-> pm] :
     iv \in IntermediateVars, pm \in ParamTables}

\* the calls the callers of the module make
CallerArgs ==
  {[fn |-> "quick_diagnose", proxy_values |-> [kind |-> "list", v |-> pv],
    custom_params |-> cp, custom_thresholds |-> ct] :
     pv \in {Reference},
     cp \in {None, Dict([omega |-> 50000])},
     ct \in {None}}
  \cup
  {[fn |-> "quick_diagnose",
    proxy_values |-> [kind |-> "list",
                      v |-> [Reference EXCEPT ![1] = 0, ![9] = 0]],
    custom_params |-> None,
    custom_thresholds |-> Dict([TP_forward |-> 70000])]}

Callers == {1, 2}

\* ------------------------------------------------------------------------
\* State
\* ------------------------------------------------------------------------

VARIABLES
  heap,        \* object -> contents of the dictionary
  ref,         \* the dictionaries the callers hold: dp, dt from the getters,
               \* rp, rt the tables of the last report ("null": none)
  frame,       \* caller -> its call of quick_diagnose in progress
  remembered,  \* some call that ended, with its result as returned
  again,       \* the last later call with the same arguments, with its result
  call,        \* a single call of one function, with its arguments
  ret          \* its result

vars == <<heap, ref, frame, remembered, again, call, ret>>

Pending == [raised |-> "pending"]
NoCall == [fn |-> "none"]
NotYet == [set |-> FALSE]
Idle == [pc |-> "idle"]

InitModule ==
  /\ heap = [o \in {"MODEL_PARAMS", "THRESHOLDS", "dp", "dt", "rp", "rt"} |->
               IF o = "MODEL_PARAMS" THEN DefaultParams
               ELSE IF o = "THRESHOLDS" THEN DefaultThresholds
               ELSE EmptyDict]
  /\ ref = [dp |-> "null", dt |-> "null", rp |-> "null", rt |-> "null"]
  /\ frame = [c \in Callers |-> Idle]
  /\ remembered = NotYet
  /\ again = NotYet

Init ==
  /\ InitModule
  /\ call = NoCall
  /\ ret = Pending

\* ------------------------------------------------------------------------
\* The module and its callers
\* ------------------------------------------------------------------------

\* quick_diagnose, lines 190-192: the two merges
Merge(c) ==
  /\ frame[c].pc = "idle"
  /\ \E a \in CallerArgs :
       frame' = [frame EXCEPT ![c] =
         [pc |-> "merged", args |-> a,
          params |-> DictMerge(heap["MODEL_PARAMS"], OrEmpty(a.custom_params)),
          thresholds |->
            DictMerge(heap["THRESHOLDS"], OrEmpty(a.custom_thresholds))]]
  /\ UNCHANGED <<heap, ref, remembered, again, call, ret>>

\* quick_diagnose, lines 194-210: the pipeline and the return; the caller
\* keeps the report, and with it the two tables the report holds
Finish(c) ==
  /\ frame[c].pc = "merged"
  /\ LET f == frame[c]
         result == Pipeline(f.args.proxy_values, f.params, f.thresholds)
         ended == [set |-> TRUE, args |-> f.args, result |-> result]
     IN /\ \/ /\ remembered' = ended
              /\ again' = NotYet
           \/ /\ remembered' = remembered
              /\ again' = IF remembered.set /\ remembered.args = f.args
                          THEN ended ELSE again
        /\ IF result.raised = "none"
           THEN /\ heap' = [heap EXCEPT !["rp"] = f.params,
                                        !["rt"] = f.thresholds]
                /\ ref' = [ref EXCEPT !.rp = "rp", !.rt = "rt"]
           ELSE UNCHANGED <<heap, ref>>
  /\ frame' = [frame EXCEPT ![c] = Idle]
  /\ UNCHANGED <<call, ret>>

GetDefaultParameters ==
  /\ LET r == get_default_parameters(heap)
     IN /\ heap' = r.heap
        /\ ref' = [ref EXCEPT !.dp = r.obj]
  /\ UNCHANGED <<frame, remembered, again, call, ret>>

GetDefaultThresholds ==
  /\ LET r == get_default_thresholds(heap)
     IN /\ heap' = r.heap
        /\ ref' = [ref EXCEPT !.dt = r.obj]
  /\ UNCHANGED <<frame, remembered, again, call, ret>>

\* a caller writes into a parameter dictionary it holds
MutateParams ==
  /\ \E r \in {"dp", "rp"} :
       /\ ref[r] # "null"
       /\ heap' = [heap EXCEPT ![ref[r]] = DictSet(@, "omega", 0)]
  /\ UNCHANGED <<ref, frame, remembered, again, call, ret>>

\* a caller writes into a threshold dictionary it holds
MutateThresholds ==
  /\ \E r \in {"dt", "rt"} :
       /\ ref[r] # "null"
       /\ heap' = [heap EXCEPT ![ref[r]] = DictSet(@, "TP_forward", 70000)]
  /\ UNCHANGED <<ref, frame, remembered, again, call, ret>>

Next ==
  \/ \E c \in Callers : Merge(c)
  \/ \E c \in Callers : Finish(c)
  \/ GetDefaultParameters
  \/ GetDefaultThresholds
  \/ MutateParams
  \/ MutateThresholds

Spec == Init /\ [][Next]_vars

\* ------------------------------------------------------------------------
\* Single calls, over all the inputs
\* ------------------------------------------------------------------------

InitCalls ==
  /\ InitModule
  /\ call \in QuickDiagnoseCalls \cup DiagnoseSystemCalls \cup ComputeCoreCalls
              \cup ShapeCalls \cup MapperCalls \cup ToolCalls
  /\ ret = Pending

CallQuickDiagnose ==
  /\ ret = Pending
  /\ call.fn = "quick_diagnose"
  /\ ret' = quick_diagnose(call.proxy_values, call.custom_params,
                           call.custom_thresholds,
                           heap["MODEL_PARAMS"], heap["THRESHOLDS"])
  /\ UNCHANGED <<heap, ref, frame, remembered, again, call>>

CallDiagnoseSystem ==
  /\ ret = Pending
  /\ call.fn = "diagnose_system"
  /\ ret' = Return(diagnose_system(call.phi_plus, call.phi_minus, call.TP,
                                   call.thresholds))
  /\ UNCHANGED <<heap, ref, frame, remembered, again, call>>

CallComputeCore ==
  /\ ret = Pending
  /\ call.fn = "compute_core_equations"
  /\ ret' = compute_core_equations(call.intermediate_vars, call.params)
  /\ UNCHANGED <<heap, ref, frame, remembered, again, call>>

CallIntermediateVariables ==
  /\ ret = Pending
  /\ call.fn = "calculate_intermediate_variables"
  /\ ret' = calculate_intermediate_variables(call.proxy_values)
  /\ UNCHANGED <<heap, ref, frame, remembered, again, call>>

CallTool ==
  /\ ret = Pending
  /\ call.fn = "quick_diagnostic.quick_diagnose"
  /\ ret' = quick_diagnostic_quick_diagnose(call.proxy_values, call.params)
  /\ UNCHANGED <<heap, ref, frame, remembered, again, call>>

NextCalls ==
  \/ CallTool
  \/ CallQuickDiagnose
  \/ CallDiagnoseSystem
  \/ CallComputeCore
  \/ CallIntermediateVariables

SpecCalls == InitCalls /\ [][NextCalls]_vars

\* ------------------------------------------------------------------------
\* Properties
\* ------------------------------------------------------------------------

Returned(fn) == call.fn = fn /\ ret.raised = "none"
Ended(fn) == call.fn = fn /\ ret.raised # "pending"

AtLeast(x, t) == (x.k = "inf" /\ x.v = 1) \/ (x.k = "fin" /\ ~(x.v < t))
AtMost(x, t) == (x.k = "inf" /\ x.v = -1) \/ (x.k = "fin" /\ ~(x.v > t))

\* C1: diagnose_system returns exactly one of the four statuses, the one of
\* the first rule that matches, in the order deep (phi_plus >= critical,
\* phi_minus <= safe, TP >= forward; low), fragile (phi_plus >= critical,
\* phi_minus <= danger, TP >= collapse; medium), negative (phi_minus >
\* danger, TP < collapse; high), else hovering (variable); a triple that
\* fails only the first rule's phi_minus condition and meets the second
\* rule is fragile, not hovering.
C1_FirstMatchingRule ==
  Returned("diagnose_system") =>
    LET th == call.thresholds
        d == ret.value
        rule1 == /\ AtLeast(call.phi_plus, th.phi_plus_critical)
                 /\ AtMost(call.phi_minus, th.phi_minus_safe)
                 /\ AtLeast(call.TP, th.TP_forward)
        rule2 == /\ AtLeast(call.phi_plus, th.phi_plus_critical)
                 /\ AtMost(call.phi_minus, th.phi_minus_danger)
                 /\ AtLeast(call.TP, th.TP_collapse)
        rule3 == /\ ~AtMost(call.phi_minus, th.phi_minus_danger)
                 /\ call.phi_minus.k # "nan"
                 /\ ~AtLeast(call.TP, th.TP_collapse)
                 /\ call.TP.k # "nan"
        is(st, rk) == d.status = st /\ d.risk_level = rk
    IN /\ Cardinality({st \in {"deep_positive_transition",
                                "fragile_positive_transition",
                                "negative_transition_warning",
                                "threshold_hovering"} : d.status = st}) = 1
       /\ is("deep_positive_transition", "low") <=> rule1
       /\ is("fragile_positive_transition", "medium") <=> ~rule1 /\ rule2
       /\ is("negative_transition_warning", "high")
            <=> ~rule1 /\ ~rule2 /\ rule3
       /\ is("threshold_hovering", "variable")
            <=> ~rule1 /\ ~rule2 /\ ~rule3
       /\ (/\ AtLeast(call.phi_plus, th.phi_plus_critical)
           /\ AtLeast(call.TP, th.TP_forward)
           /\ ~AtMost(call.phi_minus, th.phi_minus_safe)
           /\ rule2) => d.status = "fragile_positive_transition"

\* a triple that fails only the first rule's phi_minus condition was
\* classified fragile
C1_Witness ==
  /\ Returned("diagnose_system")
  /\ AtLeast(call.phi_plus, call.thresholds.phi_plus_critical)
  /\ AtLeast(call.TP, call.thresholds.TP_forward)
  /\ call.phi_minus.k = "fin"
  /\ call.phi_minus.v > call.thresholds.phi_minus_safe
  /\ call.phi_minus.v <= call.thresholds.phi_minus_danger
  /\ ret.value.status = "fragile_positive_transition"

\* C9: whatever the status, the warning list holds the safe-limit warning
\* iff phi_minus > phi_minus_safe and the insufficient-potential warning iff
\* TP < TP_forward, at most one of each, in that order; thresholds_met holds
\* exactly the three comparisons.
C9_WarningsAndFlags ==
  Returned("diagnose_system") =>
    LET th == call.thresholds
        w == ret.value.warnings
        met == ret.value.thresholds_met
        at(m) == {i \in 1 .. Len(w) : w[i].msg = m}
        over == ~AtMost(call.phi_minus, th.phi_minus_safe)
                  /\ call.phi_minus.k # "nan"
        low == ~AtLeast(call.TP, th.TP_forward) /\ call.TP.k # "nan"
    IN /\ \A i \in 1 .. Len(w) :
            w[i].msg \in {"phi_minus_over_safe", "TP_insufficient"}
       /\ Cardinality(at("phi_minus_over_safe")) = (IF over THEN 1 ELSE 0)
       /\ Cardinality(at("TP_insufficient")) = (IF low THEN 1 ELSE 0)
       /\ \A i \in at("phi_minus_over_safe"), j \in at("TP_insufficient") :
            i < j
       /\ met.phi_plus_ok = AtLeast(call.phi_plus, th.phi_plus_critical)
       /\ met.phi_minus_safe = AtMost(call.phi_minus, th.phi_minus_safe)
       /\ met.TP_forward_ok = AtLeast(call.TP, th.TP_forward)

\* the second rule fired and both warnings were given, in order
C9_Witness ==
  /\ Returned("diagnose_system")
  /\ ret.value.status = "fragile_positive_transition"
  /\ Len(ret.value.warnings) = 2
  /\ ret.value.warnings[1].msg = "phi_minus_over_safe"
  /\ ret.value.warnings[2].msg = "TP_insufficient"
  /\ ret.value.thresholds_met.phi_plus_ok
  /\ ~ret.value.thresholds_met.phi_minus_safe

\* the call is quick_diagnose on the reference proxies with the defaults
ReferenceCase ==
  /\ call.fn = "quick_diagnose"
  /\ call.proxy_values.v = Reference
  /\ call.custom_params = None
  /\ call.custom_thresholds = None

\* C2 as stated: the reference case yields status threshold_hovering.
C2_ReferenceHovering ==
  (ReferenceCase /\ Ended("quick_diagnose")) =>
    /\ ret.raised = "none"
    /\ ret.value.diagnosis.status = "threshold_hovering"

\* C2 amended: the reference case yields status deep_positive_transition
\* (risk low, no warning): phi_plus is clipped to 0.8, phi_minus is about
\* 0.090 <= 0.10 and TP is about 6.29 >= 0.52.
C2_ReferenceDeep ==
  (ReferenceCase /\ Ended("quick_diagnose")) =>
    /\ ret.raised = "none"
    /\ ret.value.diagnosis.status = "deep_positive_transition"
    /\ ret.value.diagnosis.risk_level = "low"
    /\ ret.value.diagnosis.warnings = <<>>
    /\ ret.value.core_results.phi_plus = Fin(8000)
    /\ ret.value.core_results.phi_minus.k = "fin"
    /\ ret.value.core_results.phi_minus.v \in 895 .. 909
    /\ ret.value.core_results.TP.k = "fin"
    /\ ret.value.core_results.TP.v \in 62800 .. 63000

\* the reference case was diagnosed
C2_Witness ==
  /\ ReferenceCase
  /\ call.proxy_values.kind = "list"
  /\ Returned("quick_diagnose")
  /\ ret.value.intermediate_variables.P = 59060

InRange(x, lo, hi) == x.k = "fin" /\ lo <= x.v /\ x.v <= hi

\* C3 as stated: for all finite intermediate variables and parameters,
\* zeta_plus = 0, zeta_minus = 0 and negative coefficients included,
\* compute_core_equations returns phi_plus in [0.05, 0.8] and phi_minus in
\* [0.02, 0.6].
C3_AlwaysInRange ==
  Returned("compute_core_equations") =>
    /\ InRange(ret.value.phi_plus, 500, 8000)
    /\ InRange(ret.value.phi_minus, 200, 6000)

\* C3 amended: compute_core_equations returns phi_plus in [0.05, 0.8] and
\* phi_minus in [0.02, 0.6] unless the quotient under the clip is 0/0, that
\* is unless zeta is 0 and the numerator beta * T * (1 + coefficient *
\* A or D) is 0 too; then, and only then, the result is NaN.  A zero zeta
\* with a numerator other than 0 gives the upper or the lower bound.
C3_InRangeUnlessZeroOverZero ==
  Returned("compute_core_equations") =>
    LET p == call.intermediate_vars
        pm == call.params
        r == ret.value
        num_plus == Mul(Mul(pm.beta_plus, r.T_plus), Scale + Mul(pm.tau, p.A))
        num_minus == Mul(Mul(pm.beta_minus, r.T_minus),
                         Scale + Mul(pm.iota, p.D))
    IN /\ IF pm.zeta_plus = 0 /\ num_plus = 0
          THEN r.phi_plus.k = "nan"
          ELSE InRange(r.phi_plus, 500, 8000)
       /\ IF pm.zeta_minus = 0 /\ num_minus = 0
          THEN r.phi_minus.k = "nan"
          ELSE InRange(r.phi_minus, 200, 6000)
       /\ (pm.zeta_plus = 0 /\ num_plus > 0) => r.phi_plus = Fin(8000)
       /\ (pm.zeta_plus = 0 /\ num_plus < 0) => r.phi_plus = Fin(500)

\* zeta_plus = 0 with a negative coefficient: the quotient is -inf, and
\* phi_plus the lower bound; the other connectivity was clipped from above
C3_Witness ==
  /\ Returned("compute_core_equations")
  /\ call.params.zeta_plus = 0
  /\ call.params.beta_plus < 0
  /\ ret.value.T_plus > 0
  /\ ret.value.phi_plus = Fin(500)
  /\ call.params.zeta_minus = 0
  /\ ret.value.phi_minus = Fin(6000)

\* the call is quick_diagnose on 15 proxies
FifteenProxies ==
  call.fn = "quick_diagnose" /\ Len(call.proxy_values.v) = 15

\* the value the custom parameters give to key, or the default
Supplied(custom, key, default) ==
  IF ~custom.none /\ key \in DOMAIN custom.map THEN custom.map[key]
  ELSE default

\* C4: with G = 0 (gdp_growth = 0 and electricity_access = 0), or with
\* zeta_plus = 0 or zeta_minus = 0 as an override, quick_diagnose raises no
\* exception and returns a complete report whose affected outputs
\* (d_sigma_minus, phi_plus, phi_minus) are non-finite.
C4_DegeneracyPropagates ==
  (FifteenProxies /\ Ended("quick_diagnose")) =>
    LET pv == call.proxy_values.v
        zero_G == pv[1] = 0 /\ pv[9] = 0
        zero_zp == Supplied(call.custom_params, "zeta_plus", 1) = 0
        zero_zm == Supplied(call.custom_params, "zeta_minus", 1) = 0
    IN (zero_G \/ zero_zp \/ zero_zm) =>
         /\ ret.raised = "none"
         /\ zero_G => ~IsFinite(ret.value.core_results.d_sigma_minus)
         /\ zero_zp => ~IsFinite(ret.value.core_results.phi_plus)
         /\ zero_zm => ~IsFinite(ret.value.core_results.phi_minus)

\* the keys of a custom mapping that the default table does not have
UnknownKeys(custom, defaults) == DOMAIN OrEmpty(custom) \ DOMAIN defaults

\* C5: quick_diagnose rejects a custom_params or custom_thresholds with a
\* key that the default table does not have: the call ends in an error,
\* with no report, and the key is in no table of a report.
C5_UnknownKeyRejected ==
  (FifteenProxies /\ Ended("quick_diagnose")) =>
    LET unknown_p == UnknownKeys(call.custom_params, DefaultParams)
        unknown_t == UnknownKeys(call.custom_thresholds, DefaultThresholds)
    IN (unknown_p \cup unknown_t # {}) =>
         /\ ret.raised # "none"
         /\ ret.raised = "none" =>
              /\ unknown_p \cap DOMAIN ret.value.model_parameters_used = {}
              /\ unknown_t \cap DOMAIN ret.value.thresholds_used = {}

\* C6: for every key of the default parameter table and of the default
\* threshold table, the value in model_parameters_used / thresholds_used,
\* which is the value the engine and the classifier computed with, is the
\* custom one when the custom mapping has the key and the default one
\* otherwise; None or an empty mapping gives exactly the defaults.
C6_OverrideMerge ==
  Returned("quick_diagnose") =>
    LET r == ret.value
        cp == call.custom_params
        ct == call.custom_thresholds
        engine == compute_core_equations(r.intermediate_variables,
                                         r.model_parameters_used)
    IN /\ \A x \in DOMAIN DefaultParams :
            r.model_parameters_used[x] = Supplied(cp, x, DefaultParams[x])
       /\ \A x \in DOMAIN DefaultThresholds :
            r.thresholds_used[x] = Supplied(ct, x, DefaultThresholds[x])
       /\ (cp.none \/ DOMAIN cp.map = {})
            => r.model_parameters_used = DefaultParams
       /\ (ct.none \/ DOMAIN ct.map = {})
            => r.thresholds_used = DefaultThresholds
       /\ r.core_results = engine.value
       /\ r.diagnosis = diagnose_system(r.core_results.phi_plus,
                                        r.core_results.phi_minus,
                                        r.core_results.TP, r.thresholds_used)

\* a report made with omega and TP_forward overridden: both tables hold the
\* custom value, the other keys their defaults
C6_Witness ==
  /\ Returned("quick_diagnose")
  /\ call.custom_params = Dict([omega |-> 50000])
  /\ call.custom_thresholds = Dict([TP_forward |-> 70000])
  /\ ret.value.model_parameters_used.omega = 50000
  /\ ret.value.model_parameters_used.zeta_plus = DefaultParams.zeta_plus
  /\ ret.value.thresholds_used.TP_forward = 70000
  /\ ~ret.value.diagnosis.thresholds_met.TP_forward_ok

\* the call overrides omega and nothing else
OmegaOnly ==
  /\ call.fn = "quick_diagnose"
  /\ ~call.custom_params.none
  /\ DOMAIN call.custom_params.map = {"omega"}

\* the same call without the override
WithoutOverride ==
  quick_diagnose(call.proxy_values, None, call.custom_thresholds,
                 DefaultParams, DefaultThresholds)

\* C7: overriding only omega changes only TP and what follows from TP: the
\* intermediate variables and T_plus, T_minus, d_sigma_plus, d_sigma_minus,
\* phi_plus, phi_minus and eta are those of the call with the default
\* parameters (and the call ends in an exception iff that one does).
C7_OmegaChangesOnlyTP ==
  (OmegaOnly /\ Ended("quick_diagnose")) =>
    LET base == WithoutOverride
    IN /\ ret.raised = base.raised
       /\ ret.raised = "none" =>
            /\ ret.value.intermediate_variables
                 = base.value.intermediate_variables
            /\ \A x \in {"T_plus", "T_minus", "d_sigma_plus", "d_sigma_minus",
                          "phi_plus", "phi_minus", "eta"} :
                 ret.value.core_results[x] = base.value.core_results[x]
            /\ ret.value.diagnosis.thresholds_met.phi_plus_ok
                 = base.value.diagnosis.thresholds_met.phi_plus_ok
            /\ ret.value.diagnosis.thresholds_met.phi_minus_safe
                 = base.value.diagnosis.thresholds_met.phi_minus_safe

\* an override of omega alone that changed TP and, with it, the status
C7_Witness ==
  /\ OmegaOnly
  /\ Returned("quick_diagnose")
  /\ ret.value.core_results.TP # WithoutOverride.value.core_results.TP
  /\ ret.value.diagnosis.status # WithoutOverride.value.diagnosis.status
  /\ ret.value.core_results.T_minus > 0

\* C10: for every proxy vector with gdp_growth = digital_coverage =
\* internet_penetration = 0 and default parameters, whatever the other
\* twelve proxies, the diagnosis yields T_plus = 0 and phi_plus = 0.05.
C10_BoundaryFloor ==
  (FifteenProxies /\ Ended("quick_diagnose")) =>
    LET pv == call.proxy_values.v
    IN (/\ pv[1] = 0 /\ pv[8] = 0 /\ pv[10] = 0
        /\ DOMAIN OrEmpty(call.custom_params) = {}) =>
         /\ ret.raised = "none"
         /\ ret.value.intermediate_variables.P = 0
         /\ ret.value.core_results.T_plus = 0
         /\ ret.value.core_results.phi_plus = Fin(500)

\* C8: after any interleaving of quick_diagnose calls with overrides, of
\* get_default_parameters / get_default_thresholds, and of writes into the
\* dictionaries these return and into the model_parameters_used /
\* thresholds_used of a returned report, the two module tables are as at
\* import, and two calls with the same arguments returned the same report.
C8_NoHiddenState ==
  /\ heap["MODEL_PARAMS"] = DefaultParams
  /\ heap["THRESHOLDS"] = DefaultThresholds
  /\ again.set =>
       /\ again.args = remembered.args
       /\ again.result = remembered.result

\* the callers wrote into a dictionary of each getter and into the
\* parameters of a report, other calls overrode omega, and a call with the
\* default parameters was repeated
C8_Witness ==
  /\ ref.dp # "null"
  /\ heap[ref.dp].omega = 0
  /\ ref.dt # "null"
  /\ heap[ref.dt].TP_forward = 70000
  /\ ref.rp # "null"
  /\ heap[ref.rp].omega = 0
  /\ \E c \in Callers :
       /\ frame[c].pc = "merged"
       /\ frame[c].args.custom_params = Dict([omega |-> 50000])
  /\ again.set
  /\ again.args.custom_params = None
  /\ again.result.raised = "none"
  /\ again.result.value.model_parameters_used.omega = DefaultParams.omega

WrongLength ==
  /\ call.fn \in {"quick_diagnose", "calculate_intermediate_variables"}
  /\ Len(call.proxy_values.v) # 15

\* C11: a proxy input whose length is not 15 is rejected: quick_diagnose and
\* calculate_intermediate_variables end in an error (the ValueError of the
\* unpacking), raised before any intermediate variable is computed, and the
\* call hands back no report and no partial result.
C11_WrongLengthRejected ==
  (WrongLength /\ ret.raised # "pending")
    => (ret.raised = "ValueError" /\ DOMAIN ret = {"raised"})

C11_Witness ==
  /\ call.fn = "quick_diagnose"
  /\ Len(call.proxy_values.v) = 16
  /\ call.custom_params = Dict([omega |-> 50000])
  /\ ret.raised = "ValueError"
  /\ DOMAIN ret = {"raised"}

Within(x, lo, hi) == ~(x < lo) /\ ~(x > hi)

LibraryAnswer ==
  quick_diagnose(call.proxy_values, Dict(call.params), None,
                 heap["MODEL_PARAMS"], heap["THRESHOLDS"])

ToolEnded ==
  /\ call.fn = "quick_diagnostic.quick_diagnose"
  /\ ret.raised # "pending"
  /\ Len(call.proxy_values.v) = 15

PositiveZetas ==
  /\ {"zeta_plus", "zeta_minus"} \subseteq DOMAIN call.params
  /\ call.params["zeta_plus"] > 0
  /\ call.params["zeta_minus"] > 0

\* both end the same way, and when they return, the tool's tuple holds the
\* library's phi_plus, phi_minus and TP and the label of the library's class
ToolAgrees ==
  /\ ret.raised = LibraryAnswer.raised
  /\ ret.raised = "none" =>
       /\ ret.value[1] = LibraryAnswer.value.core_results.phi_plus
       /\ ret.value[2] = LibraryAnswer.value.core_results.phi_minus
       /\ ret.value[3] = LibraryAnswer.value.core_results.TP
       /\ ret.value[4] = LibraryAnswer.value.diagnosis.label

\* C13 as stated: for every 15-element proxy vector and every parameter
\* mapping with zeta_plus > 0 and zeta_minus > 0, the mappings that give only
\* some of the parameters included, the tool returns the library's
\* phi_plus, phi_minus and TP, and its status is the label of the library's
\* class.
C13_AgreeOnEveryMapping ==
  (ToolEnded /\ PositiveZetas) => ToolAgrees

\* C13: for every 15-element proxy vector and every parameter mapping that
\* gives all sixteen parameters, with zeta_plus > 0 and zeta_minus > 0, the
\* tool and the library end the same way (both return, or both raise the
\* same exception), and when they return, the tool's phi_plus, phi_minus and
\* TP are the library's and its status is the label of the library's class.
C13_AgreeOnCompleteMapping ==
  (ToolEnded /\ PositiveZetas /\ DOMAIN PARAMS \subseteq DOMAIN call.params)
    => ToolAgrees

C13_Witness ==
  /\ ToolEnded
  /\ call.params = [PARAMS EXCEPT !.omega = 50000]
  /\ ret.raised = "none"
  /\ LibraryAnswer.raised = "none"
  /\ LibraryAnswer.value.diagnosis.status = "fragile_positive_transition"
  /\ ret.value[4] = LibraryAnswer.value.diagnosis.label
  /\ ret.value[3] = LibraryAnswer.value.core_results.TP


====
